---- MODULE Spec2Model ----
(***************************************************************************)
(* Model of the photo/text to 3D mesh converter: photo_to_model            *)
(* (src/src/photo_to_3d.py) and text_to_model with its five generators     *)
(* (src/src/text_to_3d.py).  One action per entry point; each action is    *)
(* the whole call, from the try: to the return.                            *)
(*                                                                         *)
(* Numbers.  Python floats are modelled in fixed point: coordinates and    *)
(* heights in thousandths, angles in milliradians, sin and cos by an       *)
(* integer rational approximation.  A float that can be NaN is a record    *)
(* [nan, val].  Strings are TLA+ strings, read with Len, SubSeq and \o.    *)
(***************************************************************************)
EXTENDS Integers, Sequences, FiniteSets, TLC

(* ------------------------------ bounds --------------------------------- *)

\* largest resolution argument tried
MaxRes == 3

\* the resolution arguments tried; a negative one makes numpy raise, and
\* one negative value stands for all of them
Resolutions == {-1} \cup 0..MaxRes

(* ------------------------------ inputs --------------------------------- *)

\* prompts given to text_to_model
Prompts ==
  { "", "a round cube", "a sphere object", "Football", "BOX",
    "square tube", "Tube", "scone", "hills", "ocean" }

\* output paths given to either entry point; the last one lies in a
\* directory that cannot be written
OutputPaths == { "m.stl", "M.STL", "m.obj", "model", "mstl", "ro/m.stl" }

\* whether a file can be created at the path
Writable(output_path) == output_path # "ro/m.stl"

\* an input image file: unreadable, or a decoded raster of width x height
\* (PIL's size order).  The pixel content is a fixed pattern, see Luminance.
Images ==
  { [readable |-> FALSE, width |-> 0, height |-> 0] } \cup
  { [readable |-> TRUE, width |-> d[1], height |-> d[2]] :
      d \in { <<1, 1>>, <<3, 2>>, <<2, 4>>, <<3, 3>>, <<2048, 1024>> } }

(* ------------------------------- state --------------------------------- *)

VARIABLES
  call,              \* the call in hand: its entry point and arguments
  result,            \* what it returned: "True" or "False"; "none" if it has not
  caught,            \* the error its except clause caught, or "none"
  escaped,           \* the error that left the call uncaught, or "none"
  generators,        \* the generators it invoked, in order
  mesh,              \* the mesh it built (the arguments of trimesh.Trimesh)
  params,            \* the parameter list create_terrain derived, else <<>>
  exports,           \* the exports it completed: [path, file_type]
  np_random_state,   \* the seed numpy's global generator was last given
  seed_at_entry,     \* np_random_state when the call in hand began
  previous,          \* what the last text_to_model call before this one did
  trimesh_lenient,   \* whether the installed trimesh takes degenerate arguments
  stdout,            \* the lines main has printed, in order
  exit_status        \* the exit status of the process: "none" while it runs

vars == <<call, result, caught, escaped, generators, mesh, params, exports,
          np_random_state, seed_at_entry, previous, trimesh_lenient,
          stdout, exit_status>>

(* --------------------------- str methods ------------------------------- *)

UpperCase == "ABCDEFGHIJKLMNOPQRSTUVWXYZ"
LowerCase == "abcdefghijklmnopqrstuvwxyz"

\* position of the one-character string c in s, 0 when absent
RECURSIVE IndexOf(_, _, _)
IndexOf(c, s, k) ==
  IF k > Len(s) THEN 0
  ELSE IF SubSeq(s, k, k) = c THEN k
  ELSE IndexOf(c, s, k + 1)

\* str.lower() on one character
LowerChar(c) ==
  LET k == IndexOf(c, UpperCase, 1)
  IN  IF k = 0 THEN c ELSE SubSeq(LowerCase, k, k)

\* str.lower()
RECURSIVE lower(_)
lower(s) ==
  IF Len(s) = 0 THEN ""
  ELSE LowerChar(SubSeq(s, 1, 1)) \o lower(SubSeq(s, 2, Len(s)))

\* Python's "word in s" for strings: substring containment
Contains(s, word) ==
  \E k \in 1..(Len(s) - Len(word) + 1) : SubSeq(s, k, k + Len(word) - 1) = word

\* str.endswith
endswith(s, suffix) ==
  /\ Len(s) >= Len(suffix)
  /\ SubSeq(s, Len(s) - Len(suffix) + 1, Len(s)) = suffix

(* ------------------------------ hashing -------------------------------- *)

\* hashlib.md5(prompt.encode()).hexdigest(): the MD5 digests of the prompts
\* of the model, 32 lower-case hex characters each
Md5Table ==
  << <<"",                "d41d8cd98f00b204e9800998ecf8427e">>,
     <<"a round cube",    "363c80c8373223f40646f5be2c66fbe8">>,
     <<"a sphere object", "95820170b8da74ac1097521d1b58f5db">>,
     <<"Football",        "449a5f6d01d5f416810d04b4df596b6a">>,
     <<"BOX",             "e657cce1913c857166b0475f18668ef5">>,
     <<"square tube",     "ebb0acd0a8aff71c41812b342a50d44c">>,
     <<"Tube",            "d70188f9e47cbdf2c73e82661025bcd1">>,
     <<"scone",           "87d844520077600b0d86f12525223259">>,
     <<"hills",           "61b12e319c7a53ad9605bb5f4cb9c2ce">>,
     <<"ocean",           "45d20b1d2cc2d52e74b3cbf1750a2e31">> >>

md5_hexdigest(prompt) ==
  LET k == CHOOSE n \in 1..Len(Md5Table) : Md5Table[n][1] = prompt
  IN  Md5Table[k][2]

HexDigits == "0123456789abcdef"

\* int(s, 16) for a two-character hex string
HexByte(s) ==
  16 * (IndexOf(SubSeq(s, 1, 1), HexDigits, 1) - 1)
    + (IndexOf(SubSeq(s, 2, 2), HexDigits, 1) - 1)

\* int(prompt_hash, 16) % (2**32): the low 32 bits of the digest read as a
\* big-endian number, kept as its eight hex digits (the value does not fit
\* a signed 32-bit integer)
SeedOf(prompt_hash) == SubSeq(prompt_hash, Len(prompt_hash) - 7, Len(prompt_hash))

(* ------------------------------ numpy ---------------------------------- *)

\* a Python list or a flat numpy array is a sequence; element k of the
\* source is element k + 1 here
At(seq, k) == seq[k + 1]

\* np.linspace(start, stop, num), start and stop in fixed point: num evenly
\* spaced samples, the single sample start when num = 1, none when num = 0.
\* (num < 0 raises ValueError: see LinspaceRaises.)
linspace(start, stop, num) ==
  [k \in 1..num |->
     IF num = 1 THEN start
     ELSE start + ((k - 1) * (stop - start)) \div (num - 1)]

LinspaceRaises(num) == num < 0

\* np.linspace(0, n, num).astype(int): the samples truncated to integers
linspace_astype_int(n, num) ==
  [k \in 1..num |-> IF num = 1 THEN 0 ELSE ((k - 1) * n) \div (num - 1)]

\* np.pi and np.pi / 2 in milliradians
PiMilli == 3142
HalfPiMilli == 1571

\* sin on [0, pi], argument in milliradians, result in thousandths
\* (Bhaskara's rational approximation, integer arithmetic)
SinHalfTurn(a) ==
  LET p == a * (PiMilli - a)
  IN  (160 * p) \div ((5 * PiMilli * PiMilli - 4 * p) \div 100)

\* np.sin, argument in milliradians, result in thousandths
sin(a) ==
  LET r == a % (2 * PiMilli)
  IN  IF r <= PiMilli THEN SinHalfTurn(r) ELSE 0 - SinHalfTurn(r - PiMilli)

\* np.cos, argument in milliradians, result in thousandths
cos(a) == sin(a + HalfPiMilli)

\* ndarray.reshape(-1, 3) of a (rows, cols, 3) array, and ndarray.flatten()
\* of a (rows, cols) array: the rows one after another (row-major)
RECURSIVE flatten(_)
flatten(grid) ==
  IF Len(grid) = 0 THEN <<>> ELSE Head(grid) \o flatten(Tail(grid))

\* min and max of a non-empty flat array of integers
ArrayMin(a) == CHOOSE m \in { a[k] : k \in 1..Len(a) } : \A k \in 1..Len(a) : m <= a[k]
ArrayMax(a) == CHOOSE m \in { a[k] : k \in 1..Len(a) } : \A k \in 1..Len(a) : m >= a[k]

(* --------------------------- grid faces -------------------------------- *)

\* photo_to_model, the loop "for j in range(resolution-1)" of row i
RECURSIVE photo_faces_row(_, _, _)
photo_faces_row(resolution, i, j) ==
  IF j >= resolution - 1 THEN <<>>
  ELSE LET v0 == i * resolution + j
           v1 == i * resolution + j + 1
           v2 == (i + 1) * resolution + j
           v3 == (i + 1) * resolution + j + 1
       IN  << <<v0, v1, v2>>, <<v1, v3, v2>> >>
             \o photo_faces_row(resolution, i, j + 1)

\* the loop over i running to range(resolution): one row of cells too many
RECURSIVE photo_faces_from_every_row(_, _)
photo_faces_from_every_row(resolution, i) ==
  IF i >= resolution THEN <<>>
  ELSE photo_faces_row(resolution, i, 0)
         \o photo_faces_from_every_row(resolution, i + 1)

\* photo_to_model, the loop "for i in range(resolution-1)" from row i on
RECURSIVE photo_faces_from(_, _)
photo_faces_from(resolution, i) ==
  IF i >= resolution - 1 THEN <<>>
  ELSE photo_faces_row(resolution, i, 0) \o photo_faces_from(resolution, i + 1)

photo_faces(resolution) == photo_faces_from(resolution, 0)

\* the loop over j with the second triangle of a cell wound the other way
RECURSIVE sphere_faces_row_rewound(_, _, _)
sphere_faces_row_rewound(resolution, i, j) ==
  IF j >= resolution - 1 THEN <<>>
  ELSE LET v0 == i * resolution + j
           v1 == i * resolution + j + 1
           v2 == (i + 1) * resolution + j
           v3 == (i + 1) * resolution + j + 1
       IN  << <<v0, v1, v2>>, <<v1, v2, v3>> >>
             \o sphere_faces_row_rewound(resolution, i, j + 1)

\* create_sphere, the loop over j of row i
RECURSIVE sphere_faces_row(_, _, _)
sphere_faces_row(resolution, i, j) ==
  IF j >= resolution - 1 THEN <<>>
  ELSE LET v0 == i * resolution + j
           v1 == i * resolution + j + 1
           v2 == (i + 1) * resolution + j
           v3 == (i + 1) * resolution + j + 1
       IN  << <<v0, v1, v2>>, <<v1, v3, v2>> >>
             \o sphere_faces_row(resolution, i, j + 1)

\* create_sphere, the loop over i from row i on
RECURSIVE sphere_faces_from(_, _)
sphere_faces_from(resolution, i) ==
  IF i >= resolution - 1 THEN <<>>
  ELSE sphere_faces_row(resolution, i, 0) \o sphere_faces_from(resolution, i + 1)

sphere_faces(resolution) == sphere_faces_from(resolution, 0)

\* create_terrain, the loop over j of row i
RECURSIVE terrain_faces_row(_, _, _)
terrain_faces_row(resolution, i, j) ==
  IF j >= resolution - 1 THEN <<>>
  ELSE LET v0 == i * resolution + j
           v1 == i * resolution + j + 1
           v2 == (i + 1) * resolution + j
           v3 == (i + 1) * resolution + j + 1
       IN  << <<v0, v1, v2>>, <<v1, v3, v2>> >>
             \o terrain_faces_row(resolution, i, j + 1)

\* create_terrain, the loop over i from row i on
RECURSIVE terrain_faces_from(_, _)
terrain_faces_from(resolution, i) ==
  IF i >= resolution - 1 THEN <<>>
  ELSE terrain_faces_row(resolution, i, 0) \o terrain_faces_from(resolution, i + 1)

terrain_faces(resolution) == terrain_faces_from(resolution, 0)

(* ------------------------ errors and the mesh -------------------------- *)

\* the classes of the errors the calls can raise; all derive from Exception
ExceptionClasses == { "OSError", "ValueError", "OverflowError" }

\* a handler written "except ValueError as e"
ExceptValueError(exc) == exc = "ValueError"

\* "except Exception as e": the classes the handler of both entry points
\* catches
ExceptException(exc) == exc \in ExceptionClasses

\* what a call body hands back to the try statement: the error it raised
\* ("none" when it ran to its return), the arguments it gave to
\* trimesh.Trimesh, the generators it invoked and the exports it completed
NoMesh == [kind |-> "none"]

Raised(exc, built, gens) ==
  [raised |-> exc, mesh |-> built, generators |-> gens, params |-> <<>>,
   exports |-> <<>>]

\* the tail with the suffix test on the path as given, without lower()
ExportAndReturnCaseSensitive(built, gens, output_path) ==
  LET file_type == IF endswith(output_path, ".stl") THEN "stl" ELSE "obj"
  IN  IF ~Writable(output_path) THEN Raised("OSError", built, gens)
      ELSE [raised |-> "none", mesh |-> built, generators |-> gens,
            params |-> <<>>,
            exports |-> << [path |-> output_path, file_type |-> file_type] >>]

\* the tail of both entry points: pick the file type from the path, export
\* once, return.  mesh.export raises OSError when the destination cannot be
\* written.
ExportAndReturn(built, gens, output_path) ==
  LET file_type == IF endswith(lower(output_path), ".stl") THEN "stl" ELSE "obj"
  IN  IF ~Writable(output_path) THEN Raised("OSError", built, gens)
      ELSE [raised |-> "none", mesh |-> built, generators |-> gens,
            params |-> <<>>,
            exports |-> << [path |-> output_path, file_type |-> file_type] >>]

\* trimesh is given a grid without faces below resolution 2, and fewer
\* sections than a solid has below 3.  What the library does with either is
\* not part of this code: the installed version either takes such arguments
\* (trimesh_lenient) or raises ValueError, the same way in every call.
MinGrid == 2
MinSections == 3

Degenerate(kind, resolution) ==
  \/ kind \in {"photo", "create_sphere", "create_terrain"} /\ resolution < MinGrid
  \/ kind \in {"create_cylinder", "create_cone"} /\ resolution < MinSections

\* the library takes the arguments of a call
LibraryTakes(kind, resolution) == trimesh_lenient \/ ~Degenerate(kind, resolution)

(* --------------------------- photo_to_model ---------------------------- *)

\* the longest side image.thumbnail leaves untouched
ThumbnailSide == 1024

\* image.thumbnail((1024, 1024)): the size after shrinking in proportion so
\* that the longer side is 1024 (the shorter one rounded, at least 1)
thumbnail_size(width, height) ==
  IF width >= height
  THEN <<ThumbnailSide,
         IF (2 * ThumbnailSide * height + width) \div (2 * width) < 1 THEN 1
         ELSE (2 * ThumbnailSide * height + width) \div (2 * width)>>
  ELSE <<IF (2 * ThumbnailSide * width + height) \div (2 * height) < 1 THEN 1
         ELSE (2 * ThumbnailSide * width + height) \div (2 * height),
         ThumbnailSide>>

\* the size of the image photo_to_model works on: <<width, height>>
working_size(image) ==
  IF (IF image.width >= image.height THEN image.width ELSE image.height)
       > ThumbnailSide
  THEN thumbnail_size(image.width, image.height)
  ELSE <<image.width, image.height>>

\* the pixel at row r, column c of the decoded image: a fixed RGB pattern
\* that gives different pixels different grey levels on small images
PixelRGB(r, c) == <<(31 * r + 13 * c) % 256, (63 * r + 27 * c) % 256, (5 * r + 201 * c) % 256>>

\* image.convert('L'): PIL's ITU-R 601-2 luma transform
convert_L(rgb) == (rgb[1] * 299 + rgb[2] * 587 + rgb[3] * 114) \div 1000

\* depth_map[r][c] = grey / 255.0, in thousandths
depth_map(r, c) == (convert_L(PixelRGB(r, c)) * 1000) \div 255

\* depth_map[rows, cols] with two index arrays of length resolution: numpy
\* pairs them element by element, giving the one-dimensional array of the
\* elements depth_map[rows[k], cols[k]]
depth_samples(size, resolution) ==
  LET rows == linspace_astype_int(size[2] - 1, resolution)
      cols == linspace_astype_int(size[1] - 1, resolution)
  IN  [k \in 1..resolution |-> depth_map(rows[k], cols[k])]

\* the (resolution, resolution, 3) array vertices after the three slice
\* assignments: xv[i][j] = x[j], yv[i][j] = y[i], and the one-dimensional
\* depth_samples broadcast along the rows, so that row i, column j gets
\* sample j
photo_vertex_grid(size, resolution) ==
  LET x == linspace(0, 1000, resolution)
      y == linspace(0, 1000, resolution)
      samples == depth_samples(size, resolution)
  IN  [i \in 1..resolution |->
        [j \in 1..resolution |-> <<x[j], y[i], samples[j]>>]]

\* the body of the try statement of photo_to_model
photo_body(image, output_path, resolution) ==
  IF ~image.readable THEN Raised("OSError", NoMesh, <<>>)
  ELSE IF LinspaceRaises(resolution) THEN Raised("ValueError", NoMesh, <<>>)
  ELSE IF ~LibraryTakes("photo", resolution) THEN Raised("ValueError", NoMesh, <<>>)
  ELSE LET size == working_size(image)
           vertices == flatten(photo_vertex_grid(size, resolution))
           faces == photo_faces(resolution)
       IN  ExportAndReturn([kind |-> "photo", vertices |-> vertices,
                            faces |-> faces], <<>>, output_path)

(* ----------------------------- generators ------------------------------ *)

\* what a generator hands back: the error it raised or "none", the mesh,
\* and (terrain only) the parameter list it derived from the prompt
Made(built) == [raised |-> "none", mesh |-> built, params |-> <<>>]
Failed(exc) == [raised |-> exc, mesh |-> NoMesh, params |-> <<>>]

\* create_sphere, the nested loops that append [x, y, z] for every i, j
sphere_vertex_grid(resolution) ==
  LET u == linspace(0, 2 * PiMilli, resolution)
      v == linspace(0, PiMilli, resolution)
  IN  [i \in 1..resolution |->
        [j \in 1..resolution |->
           << (sin(v[j]) * cos(u[i])) \div 2000,
              (sin(v[j]) * sin(u[i])) \div 2000,
              cos(v[j]) \div 2 >>]]

create_sphere(resolution) ==
  IF LinspaceRaises(resolution) THEN Failed("ValueError")
  ELSE IF ~LibraryTakes("create_sphere", resolution) THEN Failed("ValueError")
  ELSE Made([kind |-> "sphere",
             vertices |-> flatten(sphere_vertex_grid(resolution)),
             faces |-> sphere_faces(resolution)])

\* the largest k >= 0 with small * 2^k <= big, for 0 < small <= big
RECURSIVE Doublings(_, _)
Doublings(small, big) ==
  IF 2 * small > big THEN 0 ELSE 1 + Doublings(2 * small, big)

\* the triangles of trimesh.creation.box
BoxFaces == 12

\* the resolution at which create_cube starts to subdivide
CubeBase == 12

\* int(np.log2(resolution/12)) for resolution > 0: the logarithm truncated
\* towards zero
int_log2_ratio(resolution) ==
  IF resolution >= CubeBase THEN Doublings(CubeBase, resolution)
  ELSE 0 - Doublings(resolution, CubeBase)

\* create_cube: np.log2 of 0 is -inf and of a negative number nan, and
\* int() of either raises; range() of a negative count is empty; each
\* subdivide() turns every triangle into four
create_cube(resolution) ==
  IF resolution = 0 THEN Failed("OverflowError")
  ELSE IF resolution < 0 THEN Failed("ValueError")
  ELSE LET n == int_log2_ratio(resolution)
           steps == IF n < 0 THEN 0 ELSE n
       IN  Made([kind |-> "cube", subdivisions |-> steps,
                 face_count |-> BoxFaces * (4 ^ steps)])

\* create_cylinder
create_cylinder(resolution) ==
  IF ~LibraryTakes("create_cylinder", resolution) THEN Failed("ValueError")
  ELSE Made([kind |-> "cylinder", radius |-> 500, height |-> 1000,
             sections |-> resolution])

\* create_cone
create_cone(resolution) ==
  IF ~LibraryTakes("create_cone", resolution) THEN Failed("ValueError")
  ELSE Made([kind |-> "cone", radius |-> 500, height |-> 1000,
             sections |-> resolution])

(* ------------------------------ terrain -------------------------------- *)

\* params = [int(prompt_hash[i:i+2], 16) / 255.0 for i in range(0, 32, 2)]:
\* the sixteen bytes of the digest; a parameter is kept as its byte, the
\* division by 255 is done where the parameter is used
terrain_params(prompt_hash) ==
  [k \in 1..16 |-> HexByte(SubSeq(prompt_hash, 2 * k - 1, 2 * k))]

\* the amplitudes in use: params[:8]
AmplitudesUsed == 8

\* one pass of "z += param * np.sin(freq * xv) * np.cos(freq * yv) / freq"
\* at one grid point, with freq = 1 + i * 2; x and y in thousandths, the
\* result in ten-thousandths
terrain_term(param, i, x, y) ==
  LET freq == 1 + i * 2
  IN  (param * sin(freq * x) * cos(freq * y)) \div (255 * freq * 100)

\* z at one grid point after the loop over params[:8]
RECURSIVE terrain_sum(_, _, _, _)
terrain_sum(ps, i, x, y) ==
  IF i >= AmplitudesUsed THEN 0
  ELSE terrain_term(At(ps, i), i, x, y) + terrain_sum(ps, i + 1, x, y)

\* z before normalisation, flattened; xv[i][j] = x[j] and yv[i][j] = y[i]
terrain_heights(ps, resolution) ==
  LET x == linspace(-500, 500, resolution)
      y == linspace(-500, 500, resolution)
  IN  flatten([i \in 1..resolution |->
                [j \in 1..resolution |-> terrain_sum(ps, 0, x[j], y[i])]])

\* a float that may be NaN
Finite(v) == [nan |-> FALSE, val |-> v]
NaN == [nan |-> TRUE, val |-> 0]

\* one element of "(z - z.min()) / (z.max() - z.min()) * 0.5", in
\* thousandths: numpy divides 0.0 by 0.0 to nan (a warning, no error), and
\* nan * 0.5 is nan
normalize(z, z_min, z_max) ==
  IF z_max - z_min = 0 THEN NaN
  ELSE Finite(((z - z_min) * 500) \div (z_max - z_min))

\* the normalised height grid of create_terrain, flattened
terrain_z(ps, resolution) ==
  LET z == terrain_heights(ps, resolution)
  IN  [k \in 1..Len(z) |-> normalize(z[k], ArrayMin(z), ArrayMax(z))]

\* the (resolution * resolution, 3) array vertices after the three column
\* assignments
terrain_vertices(z, resolution) ==
  LET x == linspace(-500, 500, resolution)
      y == linspace(-500, 500, resolution)
      xv == flatten([i \in 1..resolution |-> [j \in 1..resolution |-> x[j]]])
      yv == flatten([i \in 1..resolution |-> [j \in 1..resolution |-> y[i]]])
  IN  [k \in 1..(resolution * resolution) |-> <<xv[k], yv[k], z[k]>>]

\* create_terrain with its first amplitude drawn from numpy's generator as
\* the call found it, instead of from the digest of the prompt
create_terrain_from_generator(resolution, prompt) ==
  IF LinspaceRaises(resolution) THEN Failed("ValueError")
  ELSE IF resolution * resolution = 0 THEN Failed("ValueError")
  ELSE IF ~LibraryTakes("create_terrain", resolution) THEN Failed("ValueError")
  ELSE LET drawn == IF np_random_state = "unseeded" THEN 0
                    ELSE HexByte(SubSeq(np_random_state, 1, 2))
           ps == [terrain_params(md5_hexdigest(prompt)) EXCEPT ![1] = drawn]
           z == terrain_z(ps, resolution)
       IN  [raised |-> "none", params |-> ps,
            mesh |-> [kind |-> "terrain",
                      vertices |-> terrain_vertices(z, resolution),
                      faces |-> terrain_faces(resolution)]]

\* create_terrain: z.min() of an empty array raises ValueError
create_terrain(resolution, prompt) ==
  IF LinspaceRaises(resolution) THEN Failed("ValueError")
  ELSE IF resolution * resolution = 0 THEN Failed("ValueError")
  ELSE IF ~LibraryTakes("create_terrain", resolution) THEN Failed("ValueError")
  ELSE LET ps == terrain_params(md5_hexdigest(prompt))
           z == terrain_z(ps, resolution)
       IN  [raised |-> "none", params |-> ps,
            mesh |-> [kind |-> "terrain",
                      vertices |-> terrain_vertices(z, resolution),
                      faces |-> terrain_faces(resolution)]]

(* --------------------------- text_to_model ----------------------------- *)

\* any(word in prompt_lower for word in words)
AnyWordIn(prompt_lower, words) == \E word \in words : Contains(prompt_lower, word)

\* the chain with the cube keywords tested before the sphere keywords
select_generator_cube_first(prompt) ==
  LET prompt_lower == lower(prompt)
  IN  IF AnyWordIn(prompt_lower, {"cube", "box", "square"}) THEN "create_cube"
      ELSE IF AnyWordIn(prompt_lower, {"sphere", "ball", "round"}) THEN "create_sphere"
      ELSE IF AnyWordIn(prompt_lower, {"cylinder", "tube"}) THEN "create_cylinder"
      ELSE IF AnyWordIn(prompt_lower, {"cone", "pyramid"}) THEN "create_cone"
      ELSE "create_terrain"

\* the if / elif chain of text_to_model: the generator it calls
select_generator(prompt) ==
  LET prompt_lower == lower(prompt)
  IN  IF AnyWordIn(prompt_lower, {"sphere", "ball", "round"}) THEN "create_sphere"
      ELSE IF AnyWordIn(prompt_lower, {"cube", "box", "square"}) THEN "create_cube"
      ELSE IF AnyWordIn(prompt_lower, {"cylinder", "tube"}) THEN "create_cylinder"
      ELSE IF AnyWordIn(prompt_lower, {"cone", "pyramid"}) THEN "create_cone"
      ELSE "create_terrain"

\* the call the chain makes
invoke(generator, resolution, prompt) ==
  CASE generator = "create_sphere"   -> create_sphere(resolution)
    [] generator = "create_cube"     -> create_cube(resolution)
    [] generator = "create_cylinder" -> create_cylinder(resolution)
    [] generator = "create_cone"     -> create_cone(resolution)
    [] OTHER                         -> create_terrain(resolution, prompt)

\* the body of the try statement of text_to_model
text_body(prompt, output_path, resolution) ==
  LET generator == select_generator(prompt)
      made == invoke(generator, resolution, prompt)
  IN  IF made.raised # "none"
      THEN [Raised(made.raised, NoMesh, <<generator>>) EXCEPT !.params = made.params]
      ELSE [ExportAndReturn(made.mesh, <<generator>>, output_path)
              EXCEPT !.params = made.params]

\* the resolutions at and around which create_cube subdivides; they are
\* tried on the prompts that lead to create_cube, whose mesh is kept as its
\* face count
CubeResolutions == {11, 12, 24, 48}

\* the resolution arguments tried with a prompt
ResolutionsFor(prompt) ==
  IF select_generator(prompt) = "create_cube"
  THEN Resolutions \cup CubeResolutions ELSE Resolutions

(* ------------------------------- main ---------------------------------- *)

\* the position of the last c in the first k characters of s, 0 if none
RECURSIVE rfind(_, _, _)
rfind(c, s, k) ==
  IF k = 0 THEN 0
  ELSE IF SubSeq(s, k, k) = c THEN k
  ELSE rfind(c, s, k - 1)

\* whether s[from..to] holds a character other than "."
RECURSIVE HasNonDot(_, _, _)
HasNonDot(s, from, to) ==
  IF from > to THEN FALSE
  ELSE IF SubSeq(s, from, from) # "." THEN TRUE
  ELSE HasNonDot(s, from + 1, to)

\* os.path.splitext(p)[1]: from the last dot of the last component on,
\* unless only dots come before it in that component
splitext_ext(p) ==
  LET sepIndex == rfind("/", p, Len(p))
      dotIndex == rfind(".", p, Len(p))
  IN  IF dotIndex > sepIndex /\ HasNonDot(p, sepIndex + 1, dotIndex - 1)
      THEN SubSeq(p, dotIndex, Len(p))
      ELSE ""

\* the extensions main allows for the input photo
ImageExtensions == {".jpg", ".jpeg", ".png"}

\* paths given as input_path
InputPaths == { "p.png", "P.JPG", "p.jpeg", "p.gif", ".png", "png" }

\* what input_path names: nothing, or a file holding one of the Images
InputFiles ==
  { [path |-> "p.png", isfile |-> FALSE,
     image |-> [readable |-> FALSE, width |-> 0, height |-> 0]] } \cup
  { [path |-> p, isfile |-> TRUE, image |-> image] :
      p \in InputPaths, image \in Images }

\* validate_file(file_path, allowed_extensions)
validate_file(file, allowed_extensions) ==
  /\ file.isfile
  /\ lower(splitext_ext(file.path)) \in allowed_extensions

\* the lines main prints
MissingModeLine == "Error: You must specify a mode (photo or text)"
InvalidImageLine(input_path) ==
  "Error: Input file " \o input_path \o " is not a valid image file"
PhotoLine(input_path) == "Generating 3D model from photo: " \o input_path
TextLine(prompt) == "Generating 3D model from text prompt: " \o prompt
SuccessLine(output) == "3D model generated successfully: " \o output

\* main from the line printed before the conversion to its end: an error
\* that leaves the conversion uncaught ends the process with a traceback;
\* otherwise the last line is printed, whatever the conversion returned
AfterConversion(line, run, output) ==
  IF run.raised # "none" /\ ~ExceptException(run.raised)
  THEN stdout' = <<line>> /\ exit_status' = "1"
  ELSE stdout' = <<line, SuccessLine(output)>> /\ exit_status' = "0"

(* ------------------------------ actions -------------------------------- *)

NoCall == [fn |-> "none"]
NoPrevious == [prompt |-> "none"]

Init ==
  /\ call = NoCall
  /\ result = "none"
  /\ caught = "none"
  /\ escaped = "none"
  /\ generators = <<>>
  /\ mesh = NoMesh
  /\ params = <<>>
  /\ exports = <<>>
  /\ np_random_state = "unseeded"
  /\ seed_at_entry = "unseeded"
  /\ previous = NoPrevious
  /\ trimesh_lenient \in BOOLEAN
  /\ stdout = <<>>
  /\ exit_status = "none"

\* try: body / except Exception: return False, for either entry point
Finish(run) ==
  /\ result' = IF run.raised = "none" THEN "True"
               ELSE IF ExceptException(run.raised) THEN "False" ELSE "none"
  /\ caught' = IF run.raised # "none" /\ ExceptException(run.raised)
               THEN run.raised ELSE "none"
  /\ escaped' = IF run.raised # "none" /\ ~ExceptException(run.raised)
                THEN run.raised ELSE "none"
  /\ generators' = run.generators
  /\ mesh' = run.mesh
  /\ params' = run.params
  /\ exports' = run.exports

\* photo_to_model(input_path, output_path, resolution), called when no call
\* is in hand: the program is single-threaded
PhotoToModel ==
  /\ call = NoCall
  /\ exit_status = "none"
  /\ \E image \in Images, output_path \in OutputPaths, resolution \in Resolutions :
       /\ call' = [fn |-> "photo_to_model", image |-> image,
                   output_path |-> output_path, resolution |-> resolution]
       /\ Finish(photo_body(image, output_path, resolution))
  /\ seed_at_entry' = np_random_state
  /\ UNCHANGED <<np_random_state, previous, trimesh_lenient, stdout, exit_status>>

\* text_to_model(prompt, output_path, resolution); np.random.seed(seed) runs
\* before the generator is chosen
TextToModel ==
  /\ call = NoCall
  /\ exit_status = "none"
  /\ \E prompt \in Prompts, output_path \in OutputPaths :
     \E resolution \in ResolutionsFor(prompt) :
       /\ call' = [fn |-> "text_to_model", prompt |-> prompt,
                   output_path |-> output_path, resolution |-> resolution]
       /\ Finish(text_body(prompt, output_path, resolution))
       /\ np_random_state' = SeedOf(md5_hexdigest(prompt))
  /\ seed_at_entry' = np_random_state
  /\ UNCHANGED <<previous, trimesh_lenient, stdout, exit_status>>

\* what is kept of a text_to_model call for comparison with the next one:
\* its prompt and resolution, the generator it chose, the parameter list and
\* the terrain it built, and whether it began with numpy's generator seeded
\* otherwise than its own prompt seeds it
Summary ==
  [prompt |-> call.prompt, resolution |-> call.resolution,
   generators |-> generators, params |-> params,
   terrain |-> IF mesh.kind = "terrain" THEN mesh.vertices ELSE <<>>,
   entry_seed_differed |-> seed_at_entry # np_random_state]

\* the call in hand is over: the caller has its result, the locals of the
\* call are gone, the next call can begin.  numpy's generator keeps its seed.
Return ==
  /\ call # NoCall
  /\ exit_status = "none"
  /\ previous' = IF call.fn = "text_to_model" THEN Summary ELSE previous
  /\ call' = NoCall
  /\ result' = "none"
  /\ caught' = "none"
  /\ escaped' = "none"
  /\ generators' = <<>>
  /\ mesh' = NoMesh
  /\ params' = <<>>
  /\ exports' = <<>>
  /\ seed_at_entry' = np_random_state
  /\ UNCHANGED <<np_random_state, trimesh_lenient, stdout, exit_status>>

\* main(): one run of the command line in a process of its own, where no
\* call has been made and numpy's generator has not been seeded.  The mode
\* is checked, the output directory ensured (ensure_dir never raises), the
\* input file of the photo mode validated, the conversion called with its
\* returned value dropped, and the last line printed if control gets there.
Main ==
  /\ call = NoCall
  /\ exit_status = "none"
  /\ np_random_state = "unseeded"
  /\ previous = NoPrevious
  /\ seed_at_entry' = np_random_state
  /\ UNCHANGED <<previous, trimesh_lenient>>
  /\ \/ /\ stdout' = <<MissingModeLine>>
        /\ exit_status' = "1"
        /\ UNCHANGED <<call, result, caught, escaped, generators, mesh,
                       params, exports, np_random_state>>
     \/ \E file \in InputFiles :
          /\ ~validate_file(file, ImageExtensions)
          /\ stdout' = <<InvalidImageLine(file.path)>>
          /\ exit_status' = "1"
          /\ UNCHANGED <<call, result, caught, escaped, generators, mesh,
                         params, exports, np_random_state>>
     \/ \E file \in InputFiles, output \in OutputPaths, resolution \in Resolutions :
          LET run == photo_body(file.image, output, resolution)
          IN  /\ validate_file(file, ImageExtensions)
              /\ call' = [fn |-> "photo_to_model", image |-> file.image,
                          output_path |-> output, resolution |-> resolution]
              /\ Finish(run)
              /\ AfterConversion(PhotoLine(file.path), run, output)
              /\ UNCHANGED np_random_state
     \/ \E prompt \in Prompts, output \in OutputPaths :
        \E resolution \in ResolutionsFor(prompt) :
          LET run == text_body(prompt, output, resolution)
          IN  /\ call' = [fn |-> "text_to_model", prompt |-> prompt,
                          output_path |-> output, resolution |-> resolution]
              /\ Finish(run)
              /\ np_random_state' = SeedOf(md5_hexdigest(prompt))
              /\ AfterConversion(TextLine(prompt), run, output)

Next == PhotoToModel \/ TextToModel \/ Return \/ Main

Spec == Init /\ [][Next]_vars

(* ------------------------------ claims --------------------------------- *)

\* the call in hand built a row-major grid mesh
GridMesh == mesh.kind \in {"photo", "sphere", "terrain"}

\* the working size <<width, height>> of the image of a photo call
CallSize == working_size(call.image)

\* C1: for every resolution R >= 2, the grid mesh built by photo_to_model,
\* create_terrain or create_sphere has exactly R*R vertices and exactly
\* 2*(R-1)*(R-1) faces, and every index of every face is in 0..R*R-1.
C1_GridCounts ==
  (GridMesh /\ call.resolution >= 2) =>
    LET R == call.resolution
    IN  /\ Len(mesh.vertices) = R * R
        /\ Len(mesh.faces) = 2 * (R - 1) * (R - 1)
        /\ \A f \in 1..Len(mesh.faces) : \A c \in 1..3 :
             /\ mesh.faces[f][c] >= 0
             /\ mesh.faces[f][c] < R * R

C1_Witness ==
  /\ mesh.kind = "photo"
  /\ call.resolution >= 3
  /\ result = "True"
  /\ Len(mesh.faces) = 8

\* the category order of the claim, as a list of keyword sets
C2_Categories ==
  << <<"create_sphere",   {"sphere", "ball", "round"}>>,
     <<"create_cube",     {"cube", "box", "square"}>>,
     <<"create_cylinder", {"cylinder", "tube"}>>,
     <<"create_cone",     {"cone", "pyramid"}>> >>

\* category k has a keyword contained in the lower-cased prompt
C2_Matches(prompt_lower, k) ==
  \E word \in C2_Categories[k][2] : Contains(prompt_lower, word)

\* the generator the claim names for a lower-cased prompt: that of the
\* first category with a keyword in it, else the terrain generator
C2_Expected(prompt_lower) ==
  LET matching == { k \in 1..Len(C2_Categories) : C2_Matches(prompt_lower, k) }
  IN  IF matching = {} THEN "create_terrain"
      ELSE C2_Categories[CHOOSE k \in matching : \A n \in matching : k <= n][1]

\* C2: every text_to_model call invokes exactly one generator, the one of
\* the first category (sphere, cube, cylinder, cone) with a keyword contained
\* in the lower-cased prompt, else terrain; a prompt with a sphere keyword
\* and a cube keyword, such as "a round cube", gets the sphere generator.
C2_OneGeneratorByPriority ==
  (call.fn = "text_to_model") =>
    /\ Len(generators) = 1
    /\ generators[1] = C2_Expected(lower(call.prompt))
    /\ (call.prompt = "a round cube") => generators = <<"create_sphere">>

C2_Witness ==
  /\ call.fn = "text_to_model"
  /\ call.prompt = "a round cube"
  /\ generators = <<"create_sphere">>
  /\ result = "True"

\* C3: no error leaves photo_to_model or text_to_model: every call returns
\* True or False, False exactly when an error was raised (and caught) inside
\* it, and True only with the export completed.
C3_FailuresBecomeFalse ==
  (call # NoCall) =>
    /\ escaped = "none"
    /\ result \in {"True", "False"}
    /\ (result = "False") <=> (caught # "none")
    /\ (result = "True") => Len(exports) = 1
    /\ (result = "False") => exports = <<>>

C3_Witness ==
  /\ call.fn = "photo_to_model"
  /\ ~call.image.readable
  /\ caught = "OSError"
  /\ result = "False"

\* C4: a text_to_model call with the empty prompt returns False and writes
\* no output file.
C4_EmptyPromptFails ==
  (call.fn = "text_to_model" /\ call.prompt = "") =>
    /\ result = "False"
    /\ exports = <<>>

\* the heights create_terrain sums for the call in hand, before normalising
C5_RawHeights == terrain_heights(params, call.resolution)

\* C5: when the summed height field of create_terrain is flat, every
\* normalised height is 0, never NaN.
C5_FlatFieldIsZero ==
  (mesh.kind = "terrain" /\ ArrayMax(C5_RawHeights) = ArrayMin(C5_RawHeights)) =>
    \A k \in 1..Len(mesh.vertices) : mesh.vertices[k][3] = Finite(0)

\* the call in hand went down a grid path: photo_to_model on a readable
\* image, or text_to_model dispatching to the sphere or the terrain
C6_GridPath ==
  \/ call.fn = "photo_to_model" /\ call.image.readable
  \/ call.fn = "text_to_model"
       /\ generators \in {<<"create_sphere">>, <<"create_terrain">>}

\* C6: with resolution 0 or 1, a writable destination and a library that
\* takes the degenerate arguments, the grid paths return True with a mesh
\* of zero faces.
C6_DegenerateResolutionSucceeds ==
  (C6_GridPath /\ call.resolution \in {0, 1} /\ trimesh_lenient
     /\ Writable(call.output_path)) =>
    /\ result = "True"
    /\ GridMesh
    /\ Len(mesh.faces) = 0

\* round(n / d) for n >= 0, d > 0, halves to the even neighbour
C7_Round(n, d) ==
  LET q == n \div d
      r == n % d
  IN  IF 2 * r < d THEN q
      ELSE IF 2 * r > d THEN q + 1
      ELSE IF q % 2 = 0 THEN q ELSE q + 1

\* C7: in photo_to_model with R >= 2 on an H x W luminance map, the height
\* of vertex i*R + j is the luminance at row round(i*(H-1)/(R-1)) and column
\* round(j*(W-1)/(R-1)).
C7_HeightIsSampledCell ==
  (mesh.kind = "photo" /\ call.resolution >= 2) =>
    LET R == call.resolution
        H == CallSize[2]
        W == CallSize[1]
    IN  \A i \in 0..(R - 1), j \in 0..(R - 1) :
          At(mesh.vertices, i * R + j)[3] =
            depth_map(C7_Round(i * (H - 1), R - 1), C7_Round(j * (W - 1), R - 1))

\* the path ends in ".stl", in whatever letter case
C8_EndsInStlAnyCase(path) ==
  \E suffix \in {".stl", ".stL", ".sTl", ".sTL", ".Stl", ".StL", ".STl", ".STL"} :
    endswith(path, suffix)

\* C8 as stated: a call that returns True made exactly one export, as STL
\* when the path ends in ".stl" and as OBJ for every other path.
C8_StlSuffixOnly ==
  (result = "True") =>
    /\ Len(exports) = 1
    /\ exports[1].path = call.output_path
    /\ exports[1].file_type = IF endswith(call.output_path, ".stl") THEN "stl" ELSE "obj"

\* C8 amended: a call that returns True made exactly one export, to the
\* output path, as STL when the path ends in ".stl" in any letter case and
\* as OBJ for every other path; a call that returns False made none.
C8_StlSuffixAnyCase ==
  /\ (result = "True") =>
       /\ Len(exports) = 1
       /\ exports[1].path = call.output_path
       /\ exports[1].file_type =
            IF C8_EndsInStlAnyCase(call.output_path) THEN "stl" ELSE "obj"
  /\ (result = "False") => exports = <<>>

C8_Witness ==
  /\ result = "True"
  /\ call.output_path = "M.STL"
  /\ exports = << [path |-> "M.STL", file_type |-> "stl"] >>

\* C9: a text_to_model call with the prompt and resolution of the previous
\* text_to_model call chooses the same generator and, for terrain, derives
\* the same parameter list and the same height grid, whatever seed numpy's
\* generator held when either call began.
C9_SamePromptSameShape ==
  (/\ call.fn = "text_to_model"
   /\ previous # NoPrevious
   /\ previous.prompt = call.prompt
   /\ previous.resolution = call.resolution) =>
    /\ generators = previous.generators
    /\ params = previous.params
    /\ (IF mesh.kind = "terrain" THEN mesh.vertices ELSE <<>>) = previous.terrain

C9_Witness ==
  /\ call.fn = "text_to_model"
  /\ mesh.kind = "terrain"
  /\ call.resolution >= 2
  /\ previous # NoPrevious
  /\ previous.prompt = call.prompt
  /\ previous.resolution = call.resolution
  /\ previous.entry_seed_differed
  /\ seed_at_entry = np_random_state
  /\ mesh.vertices = previous.terrain

\* C10: for every cell (i, j), 0 <= i, j <= R-2, taken row by row, the grid
\* mesh holds the face (i*R+j, i*R+j+1, (i+1)*R+j) and then the face
\* (i*R+j+1, (i+1)*R+j+1, (i+1)*R+j), and nothing else: the same list for
\* photo_to_model, create_terrain and create_sphere.
C10_CellFaces ==
  GridMesh =>
    LET R == call.resolution
        cells == IF R >= 2 THEN (R - 1) * (R - 1) ELSE 0
    IN  /\ Len(mesh.faces) = 2 * cells
        /\ \A i \in 0..(R - 2), j \in 0..(R - 2) :
             LET n == 2 * (i * (R - 1) + j)
             IN  /\ At(mesh.faces, n) = <<i * R + j, i * R + j + 1, (i + 1) * R + j>>
                 /\ At(mesh.faces, n + 1) =
                      <<i * R + j + 1, (i + 1) * R + j + 1, (i + 1) * R + j>>

C10_Witness ==
  /\ mesh.kind = "sphere"
  /\ call.resolution >= 3
  /\ At(mesh.faces, 7) = <<5, 8, 7>>

\* floor(log2(R / 12)) for R >= 12: the k with 12 * 2^k <= R < 12 * 2^(k+1)
C11_FloorLog2Ratio(R) ==
  CHOOSE k \in 0..(R \div 12) : 12 * (2 ^ k) <= R /\ R < 12 * (2 ^ (k + 1))

\* the subdivision steps the claim names for a resolution R >= 0
C11_Steps(R) == IF R >= 12 THEN C11_FloorLog2Ratio(R) ELSE 0

\* C11: for every resolution R >= 0 create_cube does not raise and hands
\* back the box after k subdivisions, k = floor(log2(R/12)) for R >= 12 and
\* k = 0 below 12 (0 and 1 included), with 12 * 4^k faces.
C11_CubeSubdivisions ==
  (generators = <<"create_cube">> /\ call.resolution >= 0) =>
    /\ caught \notin {"OverflowError", "ValueError"}
    /\ mesh.kind = "cube"
    /\ mesh.subdivisions = C11_Steps(call.resolution)
    /\ mesh.face_count = 12 * (4 ^ C11_Steps(call.resolution))

\* the run has printed the line that reports success
C12_ReportsSuccess ==
  \E i \in DOMAIN stdout :
    /\ Len(stdout[i]) >= 31
    /\ SubSeq(stdout[i], 1, 31) = "3D model generated successfully"

\* C12: main prints "3D model generated successfully" only when the
\* conversion it called (photo_to_model or text_to_model) returned True; a
\* run whose conversion returned False does not report success.
C12_SuccessOnlyAfterTrue ==
  /\ C12_ReportsSuccess => result = "True"
  /\ (exit_status # "none" /\ result = "False") => ~C12_ReportsSuccess

====
